---- MODULE Spec2Model ----
(***************************************************************************)
(* A model of the downloader crate: batch validation (downloader.rs), the  *)
(* bounded-concurrency scheduler and the per-request retry / mirror loop   *)
(* with verification (backend.rs).                                         *)
(*                                                                         *)
(* All request futures of one batch are polled by a single task, so the    *)
(* model interleaves them only at their await points: the answer to a GET  *)
(* (send + body) and the end of the blocking verification task.            *)
(***************************************************************************)
EXTENDS Integers, Sequences, FiniteSets, TLC

\* ------------------------------------------------------------------ bounds
MaxDownloads == 2
MaxUrls == 2
MaxRetries == 2
MaxParallel == 2

\* ------------------------------------------------------------------ values
Urls == {"u1", "u2"}

\* A std::path::PathBuf: absolute or relative, and its components.
Path(abs, comps) == [abs |-> abs, comps |-> comps]
EmptyPath == Path(FALSE, <<>>)
download_folder == Path(TRUE, <<"dl">>)
FileNames ==
    {EmptyPath, Path(FALSE, <<"a">>), Path(FALSE, <<"b">>), Path(TRUE, <<"dl", "a">>)}

\* Path::join: an absolute argument replaces the base.
join(base, p) == IF p.abs THEN p ELSE Path(base.abs, base.comps \o p.comps)

\* Path::to_string_lossy().is_empty()
path_is_empty(p) == ~p.abs /\ p.comps = <<>>

NotVerified == "NotVerified"
Failed == "Failed"
VerifiedOk == "Ok"
Verification == {NotVerified, Failed, VerifiedOk}

BAD_REQUEST == 400
\* Status lines the servers of the model answer with.
StatusCodes == {200, 400, 503}
\* What one GET can come to: no response at all, or a response with a status.
TransportError == [sent |-> FALSE, status |-> 0]
Outcomes == {TransportError} \cup {[sent |-> TRUE, status |-> s] : s \in StatusCodes}

is_server_error(s) == s >= 500 /\ s <= 599
is_success(s) == s >= 200 /\ s <= 299

\* reqwest::StatusCode::from_u16(..).unwrap_or(BAD_REQUEST)
status_from_u16(n) == IF n >= 100 /\ n <= 999 THEN n ELSE BAD_REQUEST

SeqsUpTo(S, n) == UNION {[1..k -> S] : k \in 0..n}
Range(s) == {s[k] : k \in DOMAIN s}

\* A Download as the caller builds it.  verify_callback is "noop" unless the
\* caller registered one with Download::verify.
Download == [urls : SeqsUpTo(Urls, MaxUrls), file_name : FileNames,
             verify_callback : {"noop", "custom"}]

VARIABLES
    retries,            \* Downloader.retries
    parallel_requests,  \* Downloader.parallel_requests
    phase,              \* the state of the call of Downloader::download
    downloads,          \* the caller's slice passed to the call
    to_process,         \* the validated downloads handed to backend::run
    next,               \* how many downloads the stream has handed out
    run,                \* per download, the state of its download() future
    result,             \* the collected Vec<Result<DownloadSummary>>
    files,              \* the destination paths that exist on disk
    net,                \* per download, the URLs it sent a GET to
    fetch,              \* one download_url call seen chunk by chunk
    mirror,             \* one MirrorContext and what was asked of it
    reporters,          \* how many reporters the factory of the call created
    digest              \* one call of the with_digest callback

vars == <<retries, parallel_requests, phase, downloads, to_process, next, run,
          result, files, net, fetch, mirror, reporters, digest>>

\* ---------------------------------------------------------- validation
SetupErr(msg) == [ok |-> FALSE, err |-> msg, value |-> <<>>]

\* The inner loop of validate_downloads: insert every URL of one download
\* into the batch-wide set, failing on the first one already known.
\* insert_urls without the test of what insert returns.
insert_urls_unchecked(urls, j, known_urls) ==
    [ok |-> TRUE, known |-> known_urls \cup Range(urls)]

\* insert_urls with one set per download: only a URL of an earlier download
\* is refused.
insert_urls_across(urls, j, known_urls) ==
    [ok |-> Range(urls) \cap known_urls = {}, known |-> known_urls \cup Range(urls)]

RECURSIVE insert_urls(_, _, _)
insert_urls(urls, j, known_urls) ==
    IF j > Len(urls) THEN [ok |-> TRUE, known |-> known_urls]
    ELSE IF urls[j] \in known_urls THEN [ok |-> FALSE, known |-> known_urls]
    ELSE insert_urls(urls, j + 1, known_urls \cup {urls[j]})

\* known_download_paths.insert(&d.file_name): the set holds the names as
\* submitted, not the joined paths.
path_key(d, file_name) == d.file_name

\* urls_missing that lets every download pass.
urls_missing_never(d) == FALSE

\* d.urls.is_empty()
urls_missing(d) == d.urls = <<>>

\* file_name_missing that lets every download pass.
file_name_missing_never(d) == FALSE

\* d.file_name.to_string_lossy().is_empty()
file_name_missing(d) == path_is_empty(d.file_name)

RECURSIVE validate_from(_, _, _, _, _)
validate_from(ds, i, known_urls, known_download_paths, acc) ==
    IF i > Len(ds) THEN [ok |-> TRUE, err |-> "", value |-> acc]
    ELSE LET d == ds[i]
             ins == insert_urls(d.urls, 1, known_urls)
             file_name == join(download_folder, d.file_name)
         IN  IF urls_missing(d) THEN SetupErr("No URL found to download.")
             ELSE IF ~ins.ok THEN SetupErr("Download URL is used more than once.")
             ELSE IF file_name_missing(d)
                  THEN SetupErr("No download file name was provided.")
             ELSE IF path_key(d, file_name) \in known_download_paths
                  THEN SetupErr("Download file name is used more than once.")
             ELSE validate_from(ds, i + 1, ins.known,
                                known_download_paths \cup {path_key(d, file_name)},
                                Append(acc, [urls |-> d.urls,
                                             file_name |-> file_name,
                                             verify_callback |-> d.verify_callback]))

validate_downloads(ds) == validate_from(ds, 1, {}, {}, <<>>)

\* d.progress.is_none(): Download::new leaves progress unset and the callers
\* of the model do not set one.
progress_is_none(d) == TRUE

\* How often validate_downloads calls factory.create_reporter(): once for
\* every download without a reporter that the loop gets to with all its
\* checks passed, whatever becomes of the downloads after it.
create_reporter_calls(ds) ==
    Cardinality({k \in DOMAIN ds :
                    /\ progress_is_none(ds[k])
                    /\ validate_downloads(SubSeq(ds, 1, k)).ok})

\* The batches a caller submits.  validate_downloads returns at the first
\* offending download and reads none after it, so a batch of the model ends
\* with its first offending download if it has one.
RECURSIVE BatchesOfLen(_)
BatchesOfLen(n) ==
    IF n = 0 THEN {<<>>}
    ELSE {Append(b, d) : b \in {x \in BatchesOfLen(n - 1) : validate_downloads(x).ok},
                         d \in Download}
Batches == UNION {BatchesOfLen(n) : n \in 0..MaxDownloads}

\* ---------------------------------------------------------- request runner
\* select_url choosing among all URLs there are.
select_url_any(urls) == Urls

\* select_url: any element of the slice (assert!(!urls.is_empty())).
select_url(urls) == Range(urls)

\* filter_urls with the comparison the other way round.
filter_urls_ne(urls, url) == SelectSeq(urls, LAMBDA u : u # url)

\* urls.iter().filter_map(|u| if u == &url { Some(u.clone()) } else { None })
filter_urls(urls, url) == SelectSeq(urls, LAMBDA u : u = url)

\* urls_after narrowing the list after every status that is no success.
urls_after_strict(urls, url, s) == IF ~is_success(s) THEN filter_urls(urls, url) ELSE urls

\* The eligible list after an attempt against url came back with status s.
urls_after(urls, url, s) == IF is_server_error(s) THEN filter_urls(urls, url) ELSE urls

\* loop_exit without the break on success.
loop_exit_no_break(urls1, s, retry) ==
    IF is_server_error(s) /\ urls1 = <<>> THEN "break"
    ELSE IF retry < retries THEN "continue"
    ELSE IF is_success(s) THEN "success"
    ELSE "end"

\* loop_exit taking every status that is no server error for a success.
loop_exit_lenient(urls1, s, retry) ==
    IF is_server_error(s) /\ urls1 = <<>> THEN "break"
    ELSE IF ~is_server_error(s) THEN "success"
    ELSE IF retry < retries THEN "continue"
    ELSE "end"

\* How one pass of the retry loop ends, given the status s, the eligible list
\* after it and the loop counter.
loop_exit(urls1, s, retry) ==
    IF is_server_error(s) /\ urls1 = <<>> THEN "break"
    ELSE IF is_success(s) THEN "success"
    ELSE IF retry < retries THEN "continue"
    ELSE "end"

\* download_url folding a failed send into a server error.
download_url_500(outcome) == IF outcome.sent THEN outcome.status ELSE 500

\* download_url: the status it returns for what the GET came to.
download_url(outcome) == IF outcome.sent THEN outcome.status ELSE BAD_REQUEST

\* download_result without the test for a failed verification.
download_result_unverified(download_successful, summary) ==
    IF ~download_successful THEN [tag |-> "ErrDownload", summary |-> summary]
    ELSE [tag |-> "Ok", summary |-> summary]

\* The Result a download() future returns.
download_result(download_successful, summary) ==
    IF ~download_successful THEN [tag |-> "ErrDownload", summary |-> summary]
    ELSE IF summary.verified = Failed THEN [tag |-> "ErrVerification", summary |-> summary]
    ELSE [tag |-> "Ok", summary |-> summary]

\* What the verify callback can return: noop always NotVerified, a custom
\* one anything; an aborted blocking task counts as NotVerified.
verify_download(verify_callback) ==
    IF verify_callback = "noop" THEN {NotVerified} ELSE Verification

\* How the blocking task that runs the verify callback ends: the callback
\* returns a Verification, or the task is aborted by a panic of the callback.
\* noop does not panic.
Aborted == "aborted"
spawn_blocking(verify_callback) ==
    IF verify_callback = "noop" THEN {NotVerified} ELSE Verification \cup {Aborted}
JoinOutcomes == Verification \cup {Aborted}

\* join_result that takes an aborted task for a failed verification.
join_result_failed(o) == IF o = Aborted THEN Failed ELSE o

\* .await.unwrap_or(crate::Verification::NotVerified)
join_result(o) == IF o = Aborted THEN NotVerified ELSE o

\* A call of a method of the Reporter of a download.
SinkCall(op, arg) == [op |-> op, arg |-> arg]

\* The text verify_download puts into its message for a Verification.
verification_text(v) ==
    IF v = NotVerified THEN "not verified" ELSE IF v = Failed THEN "FAILED" ELSE "Ok"

\* What download_url calls on the reporter in pass `retry` when the GET ends
\* as `outcome`: nothing without a response, else setup and, after the body,
\* set_message with the status.
fetch_calls(retry, outcome) ==
    IF outcome.sent
    THEN <<SinkCall("setup", ToString(retry)),
           SinkCall("set_message", ToString(outcome.status))>>
    ELSE <<>>

\* verify_calls without the call of done.
verify_calls_open(v) == <<SinkCall("set_message", verification_text(v))>>

\* What verify_download calls on the reporter once the blocking task is
\* over: set_message with the result, then done.
verify_calls(v) ==
    <<SinkCall("set_message", verification_text(v)), SinkCall("done", "")>>

IdleRunner == [pc |-> "idle", urls |-> <<>>, url |-> "", retry |-> 0,
               writer |-> FALSE, vcalls |-> 0, ret |-> "", task |-> "",
               sink |-> <<>>,
               summary |-> [status |-> <<>>, file_name |-> EmptyPath,
                            verified |-> NotVerified]]

InProgress == {i \in DOMAIN run : run[i].pc \in {"fetching", "verifying"}}

\* has_free_slot off by one.
has_free_slot_held ==
    Cardinality({i \in DOMAIN run :
                    \/ run[i].pc \in {"fetching", "verifying"}
                    \/ run[i].pc = "done" /\ run[i].ret # "Ok"}) < parallel_requests

has_free_slot_le == Cardinality(InProgress) <= parallel_requests

\* buffer_unordered(parallel_requests): room for one more future.
has_free_slot == Cardinality(InProgress) < parallel_requests

\* create_new that opens the file whether it exists or not.
create_new_truncate(file_name, fs) == TRUE

\* OpenOptions::new().create_new(true).write(true).open(..) succeeds.
create_new(file_name, fs) == file_name \notin fs

\* collect_done that looks at the stream only.
collect_done_early == next = Len(to_process)

\* The stream is exhausted and the buffer is empty: collect() completes.
collect_done == next = Len(to_process) /\ InProgress = {}

\* What is known of one GET: the URL, and what it came to.
Get(url) == [url |-> url, state |-> "pending", status |-> 0]
Answered(g, outcome) ==
    [g EXCEPT !.state = IF outcome.sent THEN "response" ELSE "error",
              !.status = IF outcome.sent THEN outcome.status ELSE 0]
AnswerLast(gets, outcome) == [gets EXCEPT ![Len(gets)] = Answered(@, outcome)]

\* A loop that always has a first pass.
in_range_first(retry) == retry = 1 \/ retry <= retries

\* `for retry in 1..=retries`: the loop has a pass number `retry`.
in_range(retry) == retry >= 1 /\ retry <= retries

\* The stream still has a download to hand out and the buffer has room: the
\* task starts it before it looks at any completed I/O.
CanStart == phase = "running" /\ next < Len(to_process) /\ has_free_slot

\* ---------------------------------------------------------- actions
\* No download_url call is looked at chunk by chunk.
NoFetch == [pc |-> "off"]

\* No MirrorContext is in use.
NoMirror == [pc |-> "off"]

\* No with_digest callback is running.
NoDigest == [pc |-> "off"]

\* A Downloader that was built and not yet called.
NoCall ==
    /\ phase = "idle"
    /\ downloads = <<>>
    /\ to_process = <<>>
    /\ next = 0
    /\ run = <<>>
    /\ result = <<>>
    /\ files = {}
    /\ net = <<>>
    /\ reporters = 0

Init ==
    /\ retries \in 0..MaxRetries
    /\ parallel_requests \in 0..MaxParallel
    /\ NoCall
    /\ fetch = NoFetch
    /\ mirror = NoMirror
    /\ digest = NoDigest

\* Downloader::download up to the point where backend::run blocks.
CallWith(batch) ==
    /\ phase = "idle"
    /\ LET v == validate_downloads(batch) IN
       /\ downloads' = batch
       /\ next' = 0
       /\ result' = <<>>
       /\ IF ~v.ok
          THEN /\ phase' = "rejected"
               /\ to_process' = <<>>
          ELSE /\ phase' = IF v.value = <<>> THEN "returned" ELSE "running"
               /\ to_process' = v.value
       /\ run' = [i \in 1..Len(to_process') |-> IdleRunner]
       /\ net' = [i \in 1..Len(to_process') |-> <<>>]
       /\ reporters' = create_reporter_calls(batch)
    /\ UNCHANGED <<retries, parallel_requests, files>>
    /\ UNCHANGED <<fetch, mirror, digest>>

\* The caller calls Downloader::download with some batch.
Call == phase = "idle" /\ \E batch \in Batches : CallWith(batch)

\* The future ends: its Result is yielded by the stream and collected.
Finish(i, r, successful) ==
    LET res == download_result(successful, r.summary) IN
    /\ run' = [run EXCEPT ![i] = [r EXCEPT !.pc = "done", !.ret = res.tag]]
    /\ result' = Append(result, res)

\* The stream hands out download i and its future runs to its first await.
Start(i) ==
    /\ CanStart
    /\ i = next + 1
    /\ next' = i
    /\ LET d == to_process[i]
           r0 == [IdleRunner EXCEPT !.urls = d.urls, !.summary.file_name = d.file_name]
       IN  IF r0.urls = <<>>
           THEN \* assert!(!urls.is_empty()) fails: the task panics
                /\ phase' = "panicked"
                /\ UNCHANGED <<run, result, files, net>>
           ELSE
           /\ UNCHANGED phase
           /\ IF ~create_new(d.file_name, files)
              THEN \* the loop is skipped
                   /\ Finish(i, r0, FALSE)
                   /\ UNCHANGED <<files, net>>
              ELSE /\ files' = files \cup {d.file_name}
                   /\ IF ~in_range(1)
                      THEN /\ Finish(i, [r0 EXCEPT !.writer = TRUE], FALSE)
                           /\ UNCHANGED net
                      ELSE \E url \in select_url(r0.urls) :
                           /\ run' = [run EXCEPT ![i] =
                                        [r0 EXCEPT !.writer = TRUE, !.pc = "fetching",
                                                   !.retry = 1, !.url = url]]
                           /\ net' = [net EXCEPT ![i] = Append(@, Get(url))]
                           /\ UNCHANGED result
    /\ UNCHANGED <<retries, parallel_requests, downloads, to_process>>
    /\ UNCHANGED <<fetch, mirror, reporters, digest>>

\* The GET of download i comes to `outcome`; the loop records it and either
\* sends the next GET, hands over to the verifier or gives up.
AttemptDone(i, outcome) ==
    /\ phase = "running"
    /\ ~CanStart
    /\ i \in DOMAIN run
    /\ run[i].pc = "fetching"
    /\ LET r == run[i]
           s == status_from_u16(download_url(outcome))
           urls1 == urls_after(r.urls, r.url, s)
           r1 == [r EXCEPT !.summary.status = Append(@, <<r.url, s>>), !.urls = urls1,
                           !.sink = @ \o fetch_calls(r.retry, outcome)]
           exit == loop_exit(urls1, s, r.retry)
           answered == AnswerLast(net[i], outcome)
       IN  CASE exit = "success" ->
                  /\ run' = [run EXCEPT ![i] =
                               [r1 EXCEPT !.pc = "verifying", !.vcalls = @ + 1]]
                  /\ net' = [net EXCEPT ![i] = answered]
                  /\ UNCHANGED <<result, phase>>
             [] exit = "continue" /\ urls1 = <<>> ->
                  \* the assertion of select_url fails: the task panics
                  /\ phase' = "panicked"
                  /\ run' = [run EXCEPT ![i] = r1]
                  /\ net' = [net EXCEPT ![i] = answered]
                  /\ UNCHANGED result
             [] exit = "continue" /\ urls1 # <<>> ->
                  \E url \in select_url(urls1) :
                  /\ run' = [run EXCEPT ![i] =
                               [r1 EXCEPT !.retry = @ + 1, !.url = url]]
                  /\ net' = [net EXCEPT ![i] = Append(answered, Get(url))]
                  /\ UNCHANGED <<result, phase>>
             [] OTHER ->
                  /\ Finish(i, r1, FALSE)
                  /\ net' = [net EXCEPT ![i] = answered]
                  /\ UNCHANGED phase
    /\ UNCHANGED <<retries, parallel_requests, downloads, to_process, next, files>>
    /\ UNCHANGED <<fetch, mirror, reporters, digest>>

\* The blocking verification task of download i ends with `v`.
VerifyDone(i, o) ==
    /\ phase = "running"
    /\ ~CanStart
    /\ i \in DOMAIN run
    /\ run[i].pc = "verifying"
    /\ o \in spawn_blocking(to_process[i].verify_callback)
    /\ join_result(o) \in verify_download(to_process[i].verify_callback)
    /\ Finish(i, [run[i] EXCEPT !.summary.verified = join_result(o),
                                !.task = IF o = Aborted THEN "aborted" ELSE "returned",
                                !.sink = @ \o verify_calls(join_result(o))],
              TRUE)
    /\ UNCHANGED <<retries, parallel_requests, phase, downloads, to_process, next,
                   files, net>>
    /\ UNCHANGED <<fetch, mirror, reporters, digest>>

\* The stream is exhausted and the buffer is empty: collect() completes and
\* the call returns the Vec.
Return ==
    /\ phase = "running"
    /\ collect_done
    /\ phase' = "returned"
    /\ UNCHANGED <<retries, parallel_requests, downloads, to_process, next, run,
                   result, files, net>>
    /\ UNCHANGED <<fetch, mirror, reporters, digest>>

\* The call is over: the caller is done with the value it got back and the
\* Downloader can be used for the next batch.  What is on disk stays.
Drop ==
    /\ phase \in {"returned", "rejected"}
    /\ phase' = "idle"
    /\ downloads' = <<>>
    /\ to_process' = <<>>
    /\ next' = 0
    /\ run' = <<>>
    /\ result' = <<>>
    /\ net' = <<>>
    /\ reporters' = 0
    /\ UNCHANGED <<retries, parallel_requests, files>>
    /\ UNCHANGED <<fetch, mirror, digest>>

Next ==
    \/ Call
    \/ Drop
    \/ \E i \in 1..MaxDownloads : Start(i)
    \/ \E i \in 1..MaxDownloads, outcome \in Outcomes : AttemptDone(i, outcome)
    \/ \E i \in 1..MaxDownloads, o \in JoinOutcomes : VerifyDone(i, o)
    \/ Return

Spec == Init /\ [][Next]_vars

\* The ways a GET ends that differ for the retry loop: no response, a success
\* and a server error (a response with a client error takes the same path as
\* no response).
FairOutcomes ==
    {TransportError} \cup {[sent |-> TRUE, status |-> s] : s \in {200, 503}}

\* Every GET and every verifier call returns, and the task that polls the
\* stream keeps running: it starts a download whenever the buffer has room and
\* completes collect() once nothing is left.
Fairness ==
    /\ \A i \in 1..MaxDownloads : WF_vars(Start(i))
    /\ \A i \in 1..MaxDownloads : WF_vars(\E outcome \in FairOutcomes : AttemptDone(i, outcome))
    /\ \A i \in 1..MaxDownloads : WF_vars(\E o \in JoinOutcomes : VerifyDone(i, o))
    /\ WF_vars(Return)

\* The batches that pass validate_downloads.
ValidBatches == {batch \in Batches : validate_downloads(batch).ok}

\* The caller calls Downloader::download with a batch that is valid.
CallValid == phase = "idle" /\ \E batch \in ValidBatches : CallWith(batch)

\* A Downloader that was built and not yet called, and a disk on which the
\* destination /dl/a may exist already.
FairInit ==
    /\ retries \in 0..MaxRetries
    /\ parallel_requests \in 0..MaxParallel
    /\ phase = "idle"
    /\ downloads = <<>>
    /\ to_process = <<>>
    /\ next = 0
    /\ run = <<>>
    /\ result = <<>>
    /\ files \in SUBSET {join(download_folder, Path(FALSE, <<"a">>))}
    /\ net = <<>>
    /\ reporters = 0
    /\ fetch = NoFetch
    /\ mirror = NoMirror
    /\ digest = NoDigest

\* One call of Downloader::download from its start to its return.
FairNext ==
    \/ CallValid
    \/ \E i \in 1..MaxDownloads : Start(i)
    \/ \E i \in 1..MaxDownloads, outcome \in FairOutcomes : AttemptDone(i, outcome)
    \/ \E i \in 1..MaxDownloads, o \in JoinOutcomes : VerifyDone(i, o)
    \/ Return

FairSpec == FairInit /\ [][FairNext]_vars /\ Fairness

\* ------------------------------------------- download_url chunk by chunk
MaxChunks == 3
MaxChunkLen == 2

MaxVerifyCalls == 1

\* The byte that download_url receives as number idx of the body in pass
\* `retry`.
Byte(retry, idx) == <<retry, idx>>

\* download_url is entered for pass `retry` of the loop: current is 0 and
\* nothing went to the writer or to the progress reporter yet.
FetchCall(retry) ==
    [pc |-> "send", retry |-> retry, current |-> 0, written |-> 0,
     chunks |-> <<>>, setups |-> 0, sink |-> <<>>, ret |-> 0,
     cut |-> FALSE, calls |-> <<>>, pos |-> 0, file |-> <<>>,
     verify_callback |-> "noop", vcalls |-> 0, task |-> "",
     verified |-> NotVerified, result |-> ""]

\* write_all for a chunk of `len` bytes: how many of them reach the file.
\* Ok is all of them; on an error any shorter prefix may have been written.
write_all(len) == 0..len

\* The file after `bytes` were written at offset pos: what was there is
\* overwritten, what lies behind the written bytes stays.
write_at(file, pos, bytes) ==
    [k \in 1..(IF Len(file) > pos + Len(bytes) THEN Len(file) ELSE pos + Len(bytes)) |->
        IF k > pos /\ k <= pos + Len(bytes) THEN bytes[k - pos] ELSE file[k]]

\* progress_call reporting every chunk twice.
progress_call_twice(current) ==
    <<SinkCall("progress", ToString(current)), SinkCall("progress", ToString(current))>>

\* progress.progress(current)
progress_call(current) == <<SinkCall("progress", ToString(current))>>

\* What a download_url call or a MirrorContext leaves alone.
call_vars == <<retries, parallel_requests, phase, downloads, to_process, next,
               run, result, files, net, reporters>>

FetchInit ==
    /\ retries \in 1..MaxRetries
    /\ parallel_requests = 1
    /\ NoCall
    /\ fetch = FetchCall(1)
    /\ mirror = NoMirror
    /\ digest = NoDigest

\* send().await comes back: with a response the writer is moved to the start
\* of the file and the reporter is set up.
FetchSend(ok) ==
    /\ fetch.pc = "send"
    /\ fetch' = IF ok
                THEN [fetch EXCEPT !.pc = "body", !.current = 0, !.setups = @ + 1,
                                   !.pos = 0,
                                   !.calls = Append(@, SinkCall("setup", ToString(fetch.retry)))]
                ELSE [fetch EXCEPT !.pc = "returned", !.ret = BAD_REQUEST]
    /\ UNCHANGED <<call_vars, mirror, digest>>

\* chunk().await yields `len` bytes, of which n reach the file; the error of
\* write_all, if any, is dropped and the reporter gets the new total.
FetchChunk(len, n) ==
    /\ fetch.pc = "body"
    /\ Len(fetch.chunks) < MaxChunks
    /\ n \in write_all(len)
    /\ LET current == fetch.current + len IN
       fetch' = [fetch EXCEPT !.current = current,
                              !.written = @ + n,
                              !.chunks = Append(@, len),
                              !.sink = Append(@, current),
                              !.file = write_at(@, fetch.pos,
                                          [k \in 1..n |-> Byte(fetch.retry, fetch.current + k)]),
                              !.pos = @ + n,
                              !.calls = @ \o progress_call(current)]
    /\ UNCHANGED <<call_vars, mirror, digest>>

\* chunk().await yields None: the body is complete, the loop ends and
\* download_url returns the status of the response.
FetchEnd(status) ==
    /\ fetch.pc = "body"
    /\ fetch' = [fetch EXCEPT !.pc = "returned", !.ret = status,
                              !.calls = Append(@, SinkCall("set_message", ToString(status)))]
    /\ UNCHANGED <<call_vars, mirror, digest>>

\* chunk().await yields an error: unwrap_or(None) ends the loop as if the
\* body were complete and download_url returns the status of the response.
FetchCut(status) ==
    /\ fetch.pc = "body"
    /\ fetch' = [fetch EXCEPT !.pc = "returned", !.ret = status, !.cut = TRUE,
                              !.calls = Append(@, SinkCall("set_message", ToString(status)))]
    /\ UNCHANGED <<call_vars, mirror, digest>>

\* The retry loop goes round and calls download_url again, with the same
\* writer and the same reporter.
FetchRetry ==
    /\ fetch.pc = "returned"
    /\ loop_exit(<<"u1">>, status_from_u16(fetch.ret), fetch.retry) = "continue"
    /\ fetch' = [FetchCall(fetch.retry + 1) EXCEPT
                    !.file = fetch.file, !.pos = fetch.pos,
                    !.verify_callback = fetch.verify_callback]
    /\ UNCHANGED <<call_vars, mirror, digest>>

FetchNext ==
    \/ \E ok \in BOOLEAN : FetchSend(ok)
    \/ \E len \in 1..MaxChunkLen, n \in 0..MaxChunkLen : FetchChunk(len, n)
    \/ \E status \in StatusCodes : FetchEnd(status)
    \/ \E status \in StatusCodes : FetchCut(status)
    \/ FetchRetry

FetchSpec == FetchInit /\ [][FetchNext]_vars

\* ------------------------------------------ one request, chunk by chunk

\* download() for one request with one URL: the destination is opened, then
\* download_url runs once per pass with the same writer and reporter, then
\* the verifier runs.  Every write_all stores its whole chunk here.
RequestInit ==
    /\ retries \in 0..MaxRetries
    /\ parallel_requests = 1
    /\ NoCall
    /\ \E cb \in {"noop", "custom"} :
          fetch = [FetchCall(1) EXCEPT !.pc = "open", !.verify_callback = cb]
    /\ mirror = NoMirror
    /\ digest = NoDigest

\* OpenOptions::create_new(..).open(..): on Ok the loop is entered (it has no
\* pass when retries is 0), on Err it is skipped.
RequestOpen(ok) ==
    /\ fetch.pc = "open"
    /\ fetch' = IF ok /\ retries >= 1
                THEN [fetch EXCEPT !.pc = "send"]
                ELSE [fetch EXCEPT !.pc = "failed",
                         !.result = download_result(FALSE, [verified |-> NotVerified]).tag]
    /\ UNCHANGED <<call_vars, mirror, digest>>

\* The loop is left without download_successful.
RequestFail ==
    /\ fetch.pc = "returned"
    /\ loop_exit(<<"u1">>, status_from_u16(fetch.ret), fetch.retry) \in {"break", "end"}
    /\ fetch' = [fetch EXCEPT !.pc = "failed",
                    !.result = download_result(FALSE, [verified |-> NotVerified]).tag]
    /\ UNCHANGED <<call_vars, mirror, digest>>

\* The loop is left with download_successful: verify_download hands the
\* verifier to spawn_blocking and awaits it.
RequestVerify ==
    /\ fetch.pc = "returned"
    /\ loop_exit(<<"u1">>, status_from_u16(fetch.ret), fetch.retry) = "success"
    /\ fetch' = [fetch EXCEPT !.pc = "verify"]
    /\ UNCHANGED <<call_vars, mirror, digest>>

\* The verifier calls its progress callback with c; noop never does.
VerifierProgress(c) ==
    /\ fetch.pc = "verify"
    /\ fetch.verify_callback # "noop"
    /\ fetch.vcalls < MaxVerifyCalls
    /\ fetch' = [fetch EXCEPT !.vcalls = @ + 1,
                              !.calls = Append(@, SinkCall("progress", ToString(c)))]
    /\ UNCHANGED <<call_vars, mirror, digest>>

\* The blocking task is over with o: verify_download reports and finishes the
\* reporter, download returns.
RequestJoin(o) ==
    /\ fetch.pc = "verify"
    /\ o \in spawn_blocking(fetch.verify_callback)
    /\ LET v == join_result(o) IN
       fetch' = [fetch EXCEPT !.pc = "done",
                              !.task = IF o = Aborted THEN "aborted" ELSE "returned",
                              !.verified = v,
                              !.calls = @ \o verify_calls(v),
                              !.result = download_result(TRUE, [verified |-> v]).tag]
    /\ UNCHANGED <<call_vars, mirror, digest>>

RequestNext ==
    \/ \E ok \in BOOLEAN : RequestOpen(ok)
    \/ \E ok \in BOOLEAN : FetchSend(ok)
    \/ \E len \in 1..MaxChunkLen : FetchChunk(len, len)
    \/ \E status \in StatusCodes : FetchEnd(status)
    \/ \E status \in StatusCodes : FetchCut(status)
    \/ FetchRetry
    \/ RequestFail
    \/ RequestVerify
    \/ \E c \in 0..1 : VerifierProgress(c)
    \/ \E o \in JoinOutcomes : RequestJoin(o)

RequestSpec == RequestInit /\ [][RequestNext]_vars

\* ------------------------------------------------------- MirrorContext
MaxBases == 2

\* A string that is read as a URL or as a relative reference: its scheme ("" if
\* it has none), its host, whether its path starts with "/", and the segments
\* of the path (a last segment "" is a trailing "/").
Text(scheme, host, root, segs) ==
    [scheme |-> scheme, host |-> host, root |-> root, segs |-> segs]

BaseTexts ==
    { Text("http", "h1", TRUE, <<"d", "">>),     \* http://h1/d/
      Text("http", "h2", TRUE, <<"d">>),         \* http://h2/d
      Text("http", "h3", FALSE, <<>>),           \* http://h3
      Text("mailto", "", FALSE, <<"x">>),        \* mailto:x
      Text("", "", FALSE, <<"d", "">>) }         \* d/

RelTexts ==
    { Text("", "", FALSE, <<"f">>),              \* f
      Text("", "", TRUE, <<"f">>),               \* /f
      Text("", "", FALSE, <<>>),                 \* the empty string
      Text("http", "h4", TRUE, <<"f">>),         \* http://h4/f
      Text("http", "", FALSE, <<>>) }            \* http://

ParseOk(v) == [ok |-> TRUE, err |-> "", value |-> v]
ParseErr(e) == [ok |-> FALSE, err |-> e, value |-> <<>>]

\* url::Url::parse: a string without a scheme is no URL, an http URL needs a
\* host and gets the path "/" if it has none; any other scheme gives a URL
\* that cannot be a base.
Url_parse(t) ==
    IF t.scheme = "" THEN ParseErr("RelativeUrlWithoutBase")
    ELSE IF t.scheme = "http"
         THEN IF t.host = "" THEN ParseErr("EmptyHost")
              ELSE ParseOk([cab |-> FALSE, scheme |-> t.scheme, host |-> t.host,
                            segs |-> IF t.segs = <<>> THEN <<"">> ELSE t.segs])
         ELSE ParseOk([cab |-> TRUE, scheme |-> t.scheme, host |-> "",
                       segs |-> t.segs])

\* url::Url::join: a reference with a scheme is parsed on its own; otherwise
\* the base must be able to be a base, a path starting with "/" replaces the
\* path of the base, the empty reference keeps it, and any other path replaces
\* the last segment of the base.
Url_join(base, t) ==
    IF t.scheme # "" THEN Url_parse(t)
    ELSE IF base.cab THEN ParseErr("RelativeUrlWithCannotBeABaseBase")
    ELSE IF t.root THEN ParseOk([base EXCEPT !.segs = t.segs])
    ELSE IF t.segs = <<>> THEN ParseOk(base)
    ELSE ParseOk([base EXCEPT !.segs = SubSeq(@, 1, Len(@) - 1) \o t.segs])

\* Url::to_string
to_string(u) == Text(u.scheme, u.host, ~u.cab, u.segs)

RECURSIVE from_urls_from(_, _, _)
from_urls_from(base_urls, k, normalized_urls) ==
    IF k > Len(base_urls) THEN ParseOk(normalized_urls)
    ELSE LET u == Url_parse(base_urls[k]) IN
         IF ~u.ok THEN ParseErr(u.err)
         ELSE from_urls_from(base_urls, k + 1, Append(normalized_urls, u.value))

\* MirrorContext::from_urls
from_urls(base_urls) == from_urls_from(base_urls, 1, <<>>)

RECURSIVE urls_for_file_skip(_, _, _, _)
urls_for_file_skip(base_urls, k, relative_path, built_urls) ==
    IF k > Len(base_urls) THEN ParseOk(built_urls)
    ELSE LET new_url == Url_join(base_urls[k], relative_path) IN
         IF ~new_url.ok
         THEN urls_for_file_skip(base_urls, k + 1, relative_path, built_urls)
         ELSE urls_for_file_skip(base_urls, k + 1, relative_path,
                                 Append(built_urls, to_string(new_url.value)))

RECURSIVE urls_for_file_from(_, _, _, _)
urls_for_file_from(base_urls, k, relative_path, built_urls) ==
    IF k > Len(base_urls) THEN ParseOk(built_urls)
    ELSE LET new_url == Url_join(base_urls[k], relative_path) IN
         IF ~new_url.ok THEN ParseErr(new_url.err)
         ELSE urls_for_file_from(base_urls, k + 1, relative_path,
                                 Append(built_urls, to_string(new_url.value)))

\* MirrorContext::urls_for_file
urls_for_file(base_urls, relative_path) ==
    urls_for_file_from(base_urls, 1, relative_path, <<>>)

\* The caller holds a list of base URLs and a relative path.
MirrorNew(input, relative_path) ==
    [pc |-> "new", input |-> input, base_urls |-> <<>>,
     relative_path |-> relative_path, built_urls |-> <<>>, err |-> ""]

MirrorInit ==
    /\ retries = 0
    /\ parallel_requests = 0
    /\ NoCall
    /\ fetch = NoFetch
    /\ digest = NoDigest
    /\ \E input \in SeqsUpTo(BaseTexts, MaxBases), relative_path \in RelTexts :
           mirror = MirrorNew(input, relative_path)

\* The caller builds the context.
MirrorFromUrls ==
    /\ mirror.pc = "new"
    /\ LET ctx == from_urls(mirror.input) IN
       mirror' = IF ctx.ok
                 THEN [mirror EXCEPT !.pc = "built", !.base_urls = ctx.value]
                 ELSE [mirror EXCEPT !.pc = "failed", !.err = ctx.err]
    /\ UNCHANGED <<call_vars, fetch, digest>>

\* The caller asks the context for the URLs of its file.
MirrorUrlsForFile ==
    /\ mirror.pc = "built"
    /\ LET built == urls_for_file(mirror.base_urls, mirror.relative_path) IN
       mirror' = IF built.ok
                 THEN [mirror EXCEPT !.pc = "listed", !.built_urls = built.value]
                 ELSE [mirror EXCEPT !.pc = "list_failed", !.err = built.err]
    /\ UNCHANGED <<call_vars, fetch, digest>>

MirrorNext ==
    \/ MirrorFromUrls
    \/ MirrorUrlsForFile

MirrorSpec == MirrorInit /\ [][MirrorNext]_vars

\* --------------------------------------------------------- with_digest

MaxFileLen == 4
MaxRead == 2

\* The digest of the first n bytes of the file; digests of different
\* prefixes differ.
Digest_of(n) == n

\* The verifier built by with_digest(hash) is called for a file of `len`
\* bytes; `hash` is the expected digest.
DigestCall(len, hash) ==
    [pc |-> "open", len |-> len, hash |-> hash, current |-> 0, hashed |-> 0,
     reads |-> <<>>, cb |-> <<>>, result |-> ""]

\* The result after hasher.finalize(): Ok iff the digest is the expected one.
finalize(hashed, hash) == IF Digest_of(hashed) = hash THEN VerifiedOk ELSE Failed

DigestInit ==
    /\ retries = 0
    /\ parallel_requests = 0
    /\ NoCall
    /\ fetch = NoFetch
    /\ mirror = NoMirror
    /\ \E len \in 0..MaxFileLen, hash \in 0..MaxFileLen : digest = DigestCall(len, hash)

\* OpenOptions::new().read(true).open(&path): without the file the verifier
\* returns Failed.
DigestOpen(ok) ==
    /\ digest.pc = "open"
    /\ digest' = IF ok THEN [digest EXCEPT !.pc = "read"]
                 ELSE [digest EXCEPT !.pc = "returned", !.result = Failed]
    /\ UNCHANGED <<call_vars, fetch, mirror>>

\* reader.read gives n > 0 bytes: they are hashed, cb is called with current
\* and only then current is advanced by n.
DigestRead(n) ==
    /\ digest.pc = "read"
    /\ n <= digest.len - digest.hashed
    /\ digest' = [digest EXCEPT !.hashed = @ + n,
                                !.reads = Append(@, n),
                                !.cb = Append(@, digest.current),
                                !.current = @ + n]
    /\ UNCHANGED <<call_vars, fetch, mirror>>

\* reader.read gives 0 at the end of the file: the loop breaks and the digest
\* is compared.
DigestEof ==
    /\ digest.pc = "read"
    /\ digest.hashed = digest.len
    /\ digest' = [digest EXCEPT !.pc = "returned",
                                !.result = finalize(digest.hashed, digest.hash)]
    /\ UNCHANGED <<call_vars, fetch, mirror>>

\* reader.read gives Err: `while let Ok(n)` ends the loop and the digest of
\* what was hashed so far is compared.
DigestReadErr ==
    /\ digest.pc = "read"
    /\ digest' = [digest EXCEPT !.pc = "stopped",
                                !.result = finalize(digest.hashed, digest.hash)]
    /\ UNCHANGED <<call_vars, fetch, mirror>>

DigestNext ==
    \/ \E ok \in BOOLEAN : DigestOpen(ok)
    \/ \E n \in 1..MaxRead : DigestRead(n)
    \/ DigestEof
    \/ DigestReadErr

DigestSpec == DigestInit /\ [][DigestNext]_vars

\* ------------------------------------------------------------------ claims
LastIsSuccess(status) == status # <<>> /\ is_success(status[Len(status)][2])
HasSuccess(status) == \E k \in DOMAIN status : is_success(status[k][2])

\* C1: the Vec the call returns is in submission order: the result at
\* position k carries the destination of the download submitted at position k.
C1_SubmissionOrder ==
    phase = "returned" =>
        \A k \in DOMAIN result :
            /\ k \in DOMAIN downloads
            /\ result[k].summary.file_name = join(download_folder, downloads[k].file_name)

\* C2: at most parallel_requests downloads are started and have not yet
\* produced their Result (they are in the retry loop or in verification).
C2_BoundedConcurrency == Cardinality(InProgress) <= parallel_requests

C2_Witness ==
    /\ phase = "running"
    /\ parallel_requests >= 1
    /\ Cardinality(InProgress) = parallel_requests
    /\ next < Len(to_process)

\* C3: a validated batch of N downloads returns N results whose destination
\* paths are pairwise distinct and are exactly the destinations submitted.
C3_Cardinality ==
    phase = "returned" =>
        /\ Len(result) = Len(downloads)
        /\ \A j, k \in DOMAIN result :
               j # k => result[j].summary.file_name # result[k].summary.file_name
        /\ {result[k].summary.file_name : k \in DOMAIN result}
               = {join(download_folder, downloads[k].file_name) : k \in DOMAIN downloads}

\* C4: a URL that answered with a server error is no longer eligible and is
\* never fetched again by the same download, and every URL of the download
\* that did not answer with a server error is still eligible.
C4_ServerErrorRemovesUrl ==
    \A i \in DOMAIN run :
        LET st == run[i].summary.status
            failed == {st[k][1] : k \in {m \in DOMAIN st : is_server_error(st[m][2])}}
        IN  /\ \A k \in DOMAIN st :
                   is_server_error(st[k][2]) =>
                       \A m \in DOMAIN net[i] : m > k => net[i][m].url # st[k][1]
            /\ run[i].pc \in {"fetching", "verifying"} =>
                   /\ Range(run[i].urls) \cap failed = {}
                   /\ Range(to_process[i].urls) \ failed \subseteq Range(run[i].urls)

\* C5: a download with several URLs all of whose attempts answer with a server
\* error ends after one attempt per URL, whatever retry budget is left.
C5_MirrorExhaustion ==
    \A i \in DOMAIN run :
        LET st == run[i].summary.status IN
        (/\ run[i].pc = "done"
         /\ run[i].writer
         /\ Len(to_process[i].urls) >= 2
         /\ retries >= Len(to_process[i].urls)
         /\ \A k \in DOMAIN st : is_server_error(st[k][2]))
        => /\ Len(st) = Len(to_process[i].urls)
           /\ {st[k][1] : k \in DOMAIN st} = Range(to_process[i].urls)
           /\ run[i].ret = "ErrDownload"

\* C6: with retries = n >= 1, a download with a single URL whose every attempt
\* answers 503 ends with n records (url, 503) and the result ErrDownload.
C6_RetryBound ==
    \A i \in DOMAIN run :
        LET st == run[i].summary.status IN
        (/\ run[i].pc = "done"
         /\ run[i].writer
         /\ retries >= 1
         /\ Len(to_process[i].urls) = 1
         /\ \A k \in DOMAIN st : st[k][2] = 503)
        => /\ st = [k \in 1..retries |-> <<to_process[i].urls[1], 503>>]
           /\ Len(net[i]) = retries
           /\ run[i].ret = "ErrDownload"

C6_Witness ==
    \E i \in DOMAIN run :
        /\ run[i].pc = "done"
        /\ retries = MaxRetries
        /\ Len(to_process[i].urls) = 1
        /\ Len(run[i].summary.status) = retries
        /\ \A k \in DOMAIN run[i].summary.status : run[i].summary.status[k][2] = 503

\* C7: once an attempt returns a success status the download sends no further
\* GET: the success is the last record, it is record k for the k-th GET, every
\* record is the answer to the GET of the same position, and k <= retries.
C7_SuccessShortCircuit ==
    \A i \in DOMAIN run :
        LET st == run[i].summary.status IN
        /\ \A k \in DOMAIN st : st[k][1] = net[i][k].url
        /\ \A k \in DOMAIN st :
               is_success(st[k][2]) =>
                   /\ k = Len(st)
                   /\ Len(net[i]) = k
                   /\ k <= retries
                   /\ run[i].pc \in {"verifying", "done"}

C7_Witness ==
    \E i \in DOMAIN run :
        /\ run[i].pc = "done"
        /\ Len(run[i].summary.status) = 2
        /\ run[i].summary.status[1][2] = 503
        /\ run[i].summary.status[2][2] = 200

\* C8: a result is Ok exactly when its last attempt record is a success and
\* its verification is not Failed; a fetched download whose verifier says
\* Failed is an error carrying Failed, and one without a verifier is Ok and
\* NotVerified.
C8_OverallSuccess ==
    /\ \A k \in DOMAIN result :
           LET r == result[k] IN
           /\ (r.tag = "Ok") <=>
                  (LastIsSuccess(r.summary.status) /\ r.summary.verified # Failed)
           /\ (LastIsSuccess(r.summary.status) /\ r.summary.verified = Failed)
                  => r.tag = "ErrVerification"
    /\ \A i \in DOMAIN run :
           (/\ run[i].pc = "done"
            /\ LastIsSuccess(run[i].summary.status)
            /\ to_process[i].verify_callback = "noop")
           => run[i].ret = "Ok" /\ run[i].summary.verified = NotVerified

C8_Witness ==
    /\ \E k \in DOMAIN result :
           /\ result[k].tag = "ErrVerification"
           /\ Len(result[k].summary.status) = 1
           /\ result[k].summary.status[1][2] = 200
    /\ \E i \in DOMAIN run :
           /\ run[i].pc = "done"
           /\ to_process[i].verify_callback = "noop"
           /\ Len(run[i].summary.status) = 1
           /\ run[i].summary.status[1][2] = 200

\* C9: the verifier of a download is called at most once and only after a
\* successful attempt; a verification of Ok or Failed implies a last record
\* with a success status, and a download that never succeeded is NotVerified.
C9_VerifyOnlyAfterSuccess ==
    /\ \A i \in DOMAIN run :
           LET r == run[i] IN
           /\ r.vcalls <= 1
           /\ r.vcalls = 1 => LastIsSuccess(r.summary.status)
           /\ r.pc = "verifying" => r.vcalls = 1
           /\ r.summary.verified \in {VerifiedOk, Failed} =>
                  r.vcalls = 1 /\ LastIsSuccess(r.summary.status)
           /\ (r.pc = "done" /\ ~HasSuccess(r.summary.status)) =>
                  r.vcalls = 0 /\ r.summary.verified = NotVerified
    /\ \A k \in DOMAIN result :
           result[k].summary.verified \in {VerifiedOk, Failed} =>
               LastIsSuccess(result[k].summary.status)

C9_Witness ==
    /\ \E i \in DOMAIN run :
           /\ run[i].pc = "done"
           /\ run[i].summary.verified = Failed
    /\ \E i \in DOMAIN run :
           /\ run[i].pc = "done"
           /\ run[i].summary.status # <<>>
           /\ ~HasSuccess(run[i].summary.status)

SharesUrl(ds) ==
    \E i, j \in DOMAIN ds : i # j /\ Range(ds[i].urls) \cap Range(ds[j].urls) # {}
SharesPath(ds) ==
    \E i, j \in DOMAIN ds : i # j /\ ds[i].file_name = ds[j].file_name
NothingDone ==
    /\ to_process = <<>>
    /\ run = <<>>
    /\ net = <<>>
    /\ result = <<>>
    /\ next = 0

C11_EmptyInputsRejected ==
    /\ (/\ phase # "idle"
        /\ \E k \in DOMAIN downloads :
               downloads[k].urls = <<>> \/ path_is_empty(downloads[k].file_name))
       => (phase = "rejected" /\ NothingDone)
    /\ \A i \in DOMAIN to_process :
           /\ to_process[i].urls # <<>>
           /\ ~path_is_empty(downloads[i].file_name)
           /\ ~path_is_empty(to_process[i].file_name)

C11_Witness ==
    /\ phase = "rejected"
    /\ Len(downloads) = 2
    /\ downloads[2].urls # <<>>
    /\ path_is_empty(downloads[2].file_name)
    /\ ~SharesUrl(downloads)

\* C12: a download whose destination exists when its future starts ends at
\* once as ErrDownload with an empty history and NotVerified, sends no GET,
\* leaves the disk as it is, takes no slot of the buffer and leaves the
\* other downloads of the batch as they are.
C12_ExistingFileSkipsRequest ==
    [][\A i \in 1..MaxDownloads :
          (/\ phase = "running"
           /\ i \in DOMAIN run
           /\ i \in DOMAIN run'
           /\ run[i].pc = "idle"
           /\ run'[i].pc # "idle"
           /\ to_process[i].file_name \in files)
          => /\ run'[i].pc = "done"
             /\ run'[i].ret = "ErrDownload"
             /\ run'[i].vcalls = 0
             /\ net'[i] = <<>>
             /\ files' = files
             /\ result' = Append(result,
                    [tag |-> "ErrDownload",
                     summary |-> [status |-> <<>>,
                                  file_name |-> to_process[i].file_name,
                                  verified |-> NotVerified]])
             /\ \A j \in DOMAIN run \ {i} : run'[j] = run[j] /\ net'[j] = net[j]
             /\ InProgress' = InProgress]_vars

C12_Witness ==
    \E i, j \in DOMAIN run :
        /\ i < j
        /\ run[i].pc = "done"
        /\ ~run[i].writer
        /\ run[i].summary.status = <<>>
        /\ run[j].ret = "Ok"

\* C14: when the call has returned, every download of the batch is done and
\* has its result in the Vec.
C14_ReturnsWhenAllTerminal ==
    phase = "returned" =>
        /\ \A i \in DOMAIN run : run[i].pc = "done"
        /\ Len(result) = Len(to_process)
        /\ DOMAIN run = DOMAIN to_process

C14_Witness ==
    /\ phase = "returned"
    /\ Len(result) = 2
    /\ \E i \in DOMAIN run : run[i].vcalls = 1
    /\ \E i \in DOMAIN run : Len(run[i].summary.status) = 2

\* An attempt that ended like a response with status 400.
BadRequestLike(g) ==
    g.state = "error" \/ (g.state = "response" /\ g.status = BAD_REQUEST)

\* C15: a GET that fails in transport is not raised: it is recorded as
\* (url, 400), it uses up one pass of the retry loop, and the loop goes on as
\* after a response with status 400: another GET if the budget allows, else
\* the download ends as ErrDownload.
C15_TransportFailureIsBadRequest ==
    /\ phase # "panicked"
    /\ \A i \in DOMAIN run :
           LET st == run[i].summary.status IN
           /\ Len(net[i]) <= retries
           /\ \A k \in DOMAIN net[i] :
                  BadRequestLike(net[i][k]) =>
                      /\ k \in DOMAIN st
                      /\ st[k] = <<net[i][k].url, BAD_REQUEST>>
                      /\ IF k < retries
                         THEN Len(net[i]) > k
                         ELSE run[i].pc = "done" /\ run[i].ret = "ErrDownload"

C15_Witness ==
    \E i \in DOMAIN run :
        /\ Len(net[i]) = 2
        /\ net[i][1].state = "error"
        /\ net[i][2].state = "error"
        /\ run[i].pc = "done"

\* C16: a URL whose GET failed in transport is no longer eligible and is
\* never fetched again by the same download, and a download all of whose
\* GETs fail in transport ends after one attempt per URL.
C16_TransportFailureRemovesUrl ==
    \A i \in DOMAIN run :
        /\ \A k \in DOMAIN net[i] :
               net[i][k].state = "error" =>
                   /\ \A m \in DOMAIN net[i] : m > k => net[i][m].url # net[i][k].url
                   /\ run[i].pc \in {"fetching", "verifying"} =>
                          net[i][k].url \notin Range(run[i].urls)
        /\ (/\ run[i].pc = "done"
            /\ run[i].writer
            /\ retries >= Len(to_process[i].urls)
            /\ \A k \in DOMAIN net[i] : net[i][k].state = "error")
           => Len(net[i]) = Len(to_process[i].urls)

\* C17: an attempt recorded with a client-error or a success status leaves
\* the eligible list of its download as it was, and the URL of the next GET,
\* if there is one, is taken from that list.
C17_ClientErrorKeepsUrls ==
    [][\A i \in 1..MaxDownloads :
          (/\ phase = "running"
           /\ i \in DOMAIN run
           /\ i \in DOMAIN run'
           /\ Len(run'[i].summary.status) = Len(run[i].summary.status) + 1
           /\ LET s == run'[i].summary.status[Len(run'[i].summary.status)][2]
              IN  (s >= 400 /\ s <= 499) \/ is_success(s))
          => /\ run'[i].urls = run[i].urls
             /\ run[i].url \in Range(run'[i].urls)
             /\ run'[i].pc = "fetching" => run'[i].url \in Range(run[i].urls)]_vars

C17_Witness ==
    \E i \in DOMAIN run :
        /\ Len(to_process[i].urls) = 2
        /\ Len(net[i]) = 2
        /\ net[i][1].state = "response"
        /\ net[i][1].status = 400
        /\ net[i][2].url = net[i][1].url
        /\ Range(run[i].urls) = Range(to_process[i].urls)

\* C20: URL selection always finds a non-empty eligible list: neither
\* assertion fails, and the URL of every GET in flight is one of the list.
C20_SelectFromNonEmpty ==
    /\ phase # "panicked"
    /\ \A i \in DOMAIN run :
           run[i].pc = "fetching" =>
               /\ run[i].urls # <<>>
               /\ run[i].url \in Range(run[i].urls)
               /\ net[i][Len(net[i])].url = run[i].url

C20_Witness ==
    \E i \in DOMAIN run :
        /\ Len(to_process[i].urls) = 2
        /\ run[i].pc = "fetching"
        /\ Len(net[i]) = 2
        /\ net[i][1].state = "response"
        /\ net[i][1].status = 503

\* C13: with room for at least one future in the buffer, and every GET and
\* verifier call returning, every download of a valid batch ends and its
\* result is collected, whatever becomes of the other downloads.
C13_EveryDownloadEnds ==
    \A i \in 1..MaxDownloads :
        (phase = "running" /\ parallel_requests >= 1 /\ i \in DOMAIN run)
            ~> (/\ i \in DOMAIN run
                /\ run[i].pc = "done"
                /\ Len(result) >= 1
                /\ \E k \in DOMAIN result :
                       result[k].summary.file_name = to_process[i].file_name)

C13_Witness ==
    /\ phase = "returned"
    /\ parallel_requests = 1
    /\ Len(run) = 2
    /\ run[1].ret = "ErrDownload"
    /\ run[2].ret = "Ok"

RECURSIVE Sum(_)
Sum(s) == IF s = <<>> THEN 0 ELSE s[1] + Sum(Tail(s))

\* The values given to progress() in one download_url call never decrease
\* and each is the number of bytes received so far in that call.
ProgressIsBytesReceived ==
    fetch.pc \in {"body", "returned"} =>
        /\ Len(fetch.sink) = Len(fetch.chunks)
        /\ \A k \in DOMAIN fetch.sink : fetch.sink[k] = Sum(SubSeq(fetch.chunks, 1, k))
        /\ \A k \in 1..(Len(fetch.sink) - 1) : fetch.sink[k] <= fetch.sink[k + 1]
        /\ fetch.pc = "returned" /\ fetch.sink # <<>> =>
               fetch.sink[Len(fetch.sink)] = fetch.current

\* C18: in one download_url call the values given to progress() never
\* decrease, each is the sum of the lengths of the chunks received so far in
\* that call, and the last one is the number of bytes the call wrote to the
\* destination.
C18_ProgressMatchesWritten ==
    /\ ProgressIsBytesReceived
    /\ fetch.pc = "returned" /\ fetch.sink # <<>> =>
           fetch.sink[Len(fetch.sink)] = fetch.written

\* C19 as stated: urls_for_file always returns a list with one URL per base
\* URL of the context, in the order of the base URLs, each the join of its
\* base URL with the relative path.
C19_OneUrlPerBase ==
    mirror.pc \in {"listed", "list_failed"} =>
        /\ mirror.pc = "listed"
        /\ Len(mirror.built_urls) = Len(mirror.input)

\* C19: from_urls gives a context exactly if every base URL parses, and then
\* the context holds the parsed URLs in the given order; urls_for_file gives
\* a list exactly if every base URL can be joined with the relative path, and
\* then the list has one URL per base URL, in that order, each the join of
\* its base URL with the path; if a join fails it gives an error and no list.
C19_MirrorUrls ==
    LET m == mirror
        joined(k) == Url_join(Url_parse(m.input[k]).value, m.relative_path)
    IN  /\ m.pc = "failed" =>
               /\ \E k \in DOMAIN m.input : ~Url_parse(m.input[k]).ok
               /\ m.base_urls = <<>>
               /\ m.built_urls = <<>>
        /\ m.pc \in {"built", "listed", "list_failed"} =>
               /\ Len(m.base_urls) = Len(m.input)
               /\ \A k \in DOMAIN m.input :
                      /\ Url_parse(m.input[k]).ok
                      /\ m.base_urls[k] = Url_parse(m.input[k]).value
        /\ m.pc = "listed" =>
               /\ Len(m.built_urls) = Len(m.input)
               /\ \A k \in DOMAIN m.input :
                      /\ joined(k).ok
                      /\ m.built_urls[k] = to_string(joined(k).value)
        /\ m.pc = "list_failed" =>
               /\ \E k \in DOMAIN m.input : ~joined(k).ok
               /\ m.built_urls = <<>>

C19_Witness ==
    /\ mirror.pc = "listed"
    /\ Len(mirror.built_urls) = 2
    /\ mirror.input[1] = Text("http", "h2", TRUE, <<"d">>)
    /\ mirror.input[2] = Text("http", "h1", TRUE, <<"d", "">>)
    /\ mirror.built_urls[1] = Text("http", "h2", TRUE, <<"f">>)
    /\ mirror.built_urls[2] = Text("http", "h1", TRUE, <<"d", "f">>)

\* C23: when the call returns, every download whose reporter got a setup
\* call also got a done call after it.
C23_SessionsClosed ==
    phase = "returned" =>
        \A i \in DOMAIN run :
            \A k \in DOMAIN run[i].sink :
                run[i].sink[k].op = "setup" =>
                    \E m \in DOMAIN run[i].sink :
                        m > k /\ run[i].sink[m].op = "done"

\* C26: a rejected batch has had no effect: no reporter was created by the
\* factory, no runner exists, no GET was sent and no result was made.
C26_RejectionWithoutEffects ==
    phase = "rejected" => (reporters = 0 /\ NothingDone)

\* The history of download i: one record per GET that came back, in the order
\* of the GETs, with the URL the GET went to and the status it was given.
HistoryOk(i) ==
    LET st == run[i].summary.status
        submitted == Range(to_process[i].urls)
    IN  /\ Len(st) <= retries
        /\ Len(st) = Cardinality({k \in DOMAIN net[i] : net[i][k].state # "pending"})
        /\ \A k \in DOMAIN st :
               /\ net[i][k].state # "pending"
               /\ st[k][1] = net[i][k].url
               /\ st[k][1] \in submitted
               /\ st[k][2] = IF net[i][k].state = "error" THEN BAD_REQUEST
                             ELSE net[i][k].status
        /\ \A k \in DOMAIN net[i] : net[i][k].url \in submitted
        /\ run[i].pc # "idle" => Range(run[i].urls) \subseteq submitted

\* C28: at every point the history of a download has one record per attempt
\* made, in attempt order, at most `retries` of them, each with a URL that
\* was submitted with the download; a step only appends to the history and
\* never adds a URL to the eligible list.
C28_HistoryInvariant ==
    [][\A i \in 1..MaxDownloads :
          /\ i \in DOMAIN run' => HistoryOk(i)'
          /\ (i \in DOMAIN run /\ i \in DOMAIN run' /\ phase = "running") =>
                 /\ Len(run'[i].summary.status) \in
                        {Len(run[i].summary.status), Len(run[i].summary.status) + 1}
                 /\ SubSeq(run'[i].summary.status, 1, Len(run[i].summary.status))
                        = run[i].summary.status
                 /\ run[i].pc # "idle" =>
                        Range(run'[i].urls) \subseteq Range(run[i].urls)]_vars

C28_Witness ==
    \E i \in DOMAIN run :
        /\ retries = 2
        /\ Len(to_process[i].urls) = 2
        /\ Len(run[i].summary.status) = 2
        /\ run[i].summary.status[1][1] # run[i].summary.status[2][1]
        /\ net[i][1].state = "error"
        /\ run[i].pc = "done"

\* C29: when the blocking task of the verifier is aborted, the download is
\* NotVerified and ends as Ok, set_message and done are still called, the
\* call goes on and no other download is touched.
C29_VerifierAbort ==
    [][\A i \in 1..MaxDownloads :
          (/\ i \in DOMAIN run
           /\ i \in DOMAIN run'
           /\ run[i].task = ""
           /\ run'[i].task = "aborted")
          => /\ run'[i].pc = "done"
             /\ run'[i].summary.verified = NotVerified
             /\ run'[i].ret = "Ok"
             /\ result' = Append(result, [tag |-> "Ok", summary |-> run'[i].summary])
             /\ run'[i].sink = run[i].sink \o
                    <<SinkCall("set_message", "not verified"), SinkCall("done", "")>>
             /\ phase = "running" /\ phase' = "running"
             /\ files' = files
             /\ \A j \in DOMAIN run \ {i} : run'[j] = run[j] /\ net'[j] = net[j]]_vars

C29_Witness ==
    \E i, j \in DOMAIN run :
        /\ i # j
        /\ phase = "returned"
        /\ run[i].task = "aborted"
        /\ run[i].ret = "Ok"
        /\ run[j].task = "returned"
        /\ run[j].summary.verified = VerifiedOk
        /\ result[1].summary.file_name = to_process[i].file_name

\* A list that holds some URL twice.
HasRepeat(urls) == \E a, b \in DOMAIN urls : a < b /\ urls[a] = urls[b]

\* C30: a batch in which one download lists a URL twice is rejected, also
\* when no other download of the batch has that URL.
C30_RepeatedMirrorRejected ==
    (phase # "idle" /\ \E k \in DOMAIN downloads : HasRepeat(downloads[k].urls))
        => (phase = "rejected" /\ NothingDone)

C30_Witness ==
    /\ phase = "rejected"
    /\ Len(downloads) = 1
    /\ downloads[1].urls = <<"u1", "u1">>
    /\ ~path_is_empty(downloads[1].file_name)


\* The body an attempt received, as the bytes of pass `retry` numbered from 1.
ReceivedBody(retry, n) == [k \in 1..n |-> Byte(retry, k)]

\* C21: when the loop is left with success, the destination holds exactly the
\* bytes the successful attempt received, in order: nothing of an earlier
\* attempt's body is left in it, even if that attempt wrote more bytes.
C21_FileIsSuccessfulBody ==
    fetch.pc = "verify" => fetch.file = ReceivedBody(fetch.retry, fetch.current)

\* C22: an attempt with a transport error, before the response or while the
\* body is streamed, returns the sentinel status and never a success status.
C22_TransportErrorIsFailure ==
    (fetch.pc = "returned" /\ (fetch.setups = 0 \/ fetch.cut))
        => (fetch.ret = BAD_REQUEST /\ ~is_success(status_from_u16(fetch.ret)))

\* The sink calls of an attempt that got a response and received `chunks`.
BodyCalls(retry, chunks) ==
    <<SinkCall("setup", ToString(retry))>> \o
    [k \in 1..Len(chunks) |-> SinkCall("progress", ToString(Sum(SubSeq(chunks, 1, k))))]

\* C24: an attempt that got a response calls setup once, then progress once
\* per received chunk in arrival order, then set_message with the status
\* once, and nothing else; an attempt without a response makes no sink call.
C24_SinkCallOrder ==
    /\ fetch.pc = "send" => fetch.calls = <<>>
    /\ fetch.pc = "body" => fetch.calls = BodyCalls(fetch.retry, fetch.chunks)
    /\ (fetch.pc = "returned" /\ fetch.setups = 0) => fetch.calls = <<>>
    /\ (fetch.pc = "returned" /\ fetch.setups > 0) =>
          fetch.calls = Append(BodyCalls(fetch.retry, fetch.chunks),
                               SinkCall("set_message", ToString(fetch.ret)))

C24_Witness ==
    /\ fetch.pc = "returned"
    /\ fetch.setups = 1
    /\ Len(fetch.chunks) = 2
    /\ fetch.ret = 200

\* How many calls of `op` the sequence holds.
CountOp(calls, op) == Cardinality({k \in DOMAIN calls : calls[k].op = op})

\* C25: once the verifier is over (noop or configured), the sink gets
\* set_message with the outcome and then done, each once and in that order;
\* every progress call of the verifier lies between the fetch's set_message
\* and that one, and done is the last call; before that no done is made.
C25_FinalCalls ==
    /\ fetch.pc \in {"send", "body", "returned", "verify"} => CountOp(fetch.calls, "done") = 0
    /\ fetch.pc = "done" =>
          LET n == Len(fetch.calls)
              m == Len(fetch.chunks) + 2
          IN  /\ n = m + fetch.vcalls + 2
              /\ fetch.calls[m] = SinkCall("set_message", ToString(fetch.ret))
              /\ \A k \in (m + 1)..(n - 2) : fetch.calls[k].op = "progress"
              /\ fetch.calls[n - 1] = SinkCall("set_message", verification_text(fetch.verified))
              /\ fetch.calls[n] = SinkCall("done", "")
              /\ CountOp(fetch.calls, "done") = 1
              /\ CountOp(fetch.calls, "set_message") = 2

C25_Witness ==
    /\ fetch.pc = "done"
    /\ fetch.verify_callback = "custom"
    /\ fetch.vcalls = 1
    /\ fetch.task = "returned"


\* C27: every value with_digest passes to the progress callback is the number
\* of bytes hashed so far, the chunk just hashed included; the values never
\* decrease; and after a scan of the whole file the last value is the length
\* of the file.
C27_DigestProgress ==
    digest.pc \in {"read", "returned", "stopped"} =>
        /\ Len(digest.cb) = Len(digest.reads)
        /\ \A k \in DOMAIN digest.cb : digest.cb[k] = Sum(SubSeq(digest.reads, 1, k))
        /\ \A k \in 2..Len(digest.cb) : digest.cb[k - 1] <= digest.cb[k]
        /\ (digest.pc = "returned" /\ digest.cb # <<>>) =>
              digest.cb[Len(digest.cb)] = digest.len

\* What the code does instead: every value is the number of bytes hashed
\* before the chunk just hashed.
DigestProgressIsBytesBefore ==
    digest.pc \in {"read", "returned", "stopped"} =>
        /\ Len(digest.cb) = Len(digest.reads)
        /\ \A k \in DOMAIN digest.cb : digest.cb[k] = Sum(SubSeq(digest.reads, 1, k - 1))


\* What download returns when the destination cannot be created.
CreationFailure(file_name) ==
    [tag |-> "ErrDownload",
     summary |-> [status |-> <<>>, file_name |-> file_name, verified |-> NotVerified]]

\* C32: with retries = 0 a request sends no GET and calls neither the
\* reporter nor the verifier; its destination is still created, and it ends
\* as a download failure with an empty status list, the same value a
\* request gets whose destination could not be created.
C32_NoPassWithoutRetries ==
    retries = 0 =>
        \A i \in DOMAIN run :
            /\ run[i].pc \in {"idle", "done"}
            /\ net[i] = <<>>
            /\ run[i].sink = <<>>
            /\ run[i].vcalls = 0
            /\ run[i].pc = "done" =>
                  /\ to_process[i].file_name \in files
                  /\ run[i].ret = "ErrDownload"
                  /\ run[i].summary = CreationFailure(to_process[i].file_name).summary
                  /\ CreationFailure(to_process[i].file_name) \in {result[k] : k \in DOMAIN result}

C32_Witness ==
    /\ retries = 0
    /\ phase = "returned"
    /\ \E i \in DOMAIN run : run[i].pc = "done" /\ run[i].writer


\* C33: with parallel_requests = 0 and a batch that is valid and not empty,
\* no download is ever started, none ends, and the call never returns; with
\* an empty batch the call returns an empty Vec at once, whatever
\* parallel_requests is, and nothing is scheduled.
C33_ZeroWidthNeverReturns ==
    /\ (parallel_requests = 0 /\ to_process # <<>>) =>
          /\ phase = "running"
          /\ next = 0
          /\ result = <<>>
          /\ \A i \in DOMAIN run : run[i].pc = "idle" /\ net[i] = <<>>
    /\ (phase \in {"running", "returned", "panicked"} /\ downloads = <<>>) =>
          /\ phase = "returned"
          /\ result = <<>>
          /\ next = 0
          /\ run = <<>>
          /\ net = <<>>

C33_Witness ==
    /\ parallel_requests = 0
    /\ phase = "running"
    /\ Len(to_process) = 2


\* Download i leaves the stream in this step.
Started(i) ==
    /\ phase = "running"
    /\ i \in DOMAIN run
    /\ run[i].pc = "idle"
    /\ next' = i

\* C31: a request that ends as a download failure after it created its
\* destination leaves the file on disk, and no step of the Downloader removes
\* a file; a request that is started while its destination exists, as in a
\* later batch with the same destination, ends at once as a download failure
\* with an empty status list and without a GET.
C31_ExhaustedFileBlocksLater ==
    [][ /\ files \subseteq files'
        /\ \A i \in DOMAIN run :
              (run[i].pc = "done" /\ run[i].ret = "ErrDownload" /\ run[i].writer)
                  => to_process[i].file_name \in files
        /\ \A i \in 1..MaxDownloads :
              (Started(i) /\ to_process[i].urls # <<>> /\ to_process[i].file_name \in files) =>
                  /\ run'[i].pc = "done"
                  /\ ~run'[i].writer
                  /\ run'[i].ret = "ErrDownload"
                  /\ run'[i].summary.status = <<>>
                  /\ net'[i] = <<>>
                  /\ result' = Append(result, CreationFailure(to_process[i].file_name))
                  /\ files' = files
      ]_vars

\* A batch of one download whose destination exists: an earlier batch of
\* this Downloader created it.
C31_Witness ==
    /\ phase = "returned"
    /\ Len(to_process) = 1
    /\ retries >= 1
    /\ run[1].pc = "done"
    /\ ~run[1].writer
    /\ to_process[1].file_name \in files
    /\ net[1] = <<>>

====
